---- MODULE Spec2Model ----
(***************************************************************************)
(* Model of backend/server.js: the sale lifecycle handlers (open_sales,    *)
(* closed_sales) and the inventory stock they read and write.  Every       *)
(* `await sql` of a handler is one atomic step of the database; the        *)
(* synchronous JavaScript between two awaits belongs to the step of the    *)
(* statement that precedes it.                                             *)
(***************************************************************************)
EXTENDS Integers, Sequences, FiniteSets, TLC

VARIABLES inventory, open_sales, closed_sales, open_seq, closed_seq,
          pc, req, idx, sale, paidAt, res, pre

vars == <<inventory, open_sales, closed_sales, open_seq, closed_seq,
          pc, req, idx, sale, paidAt, res, pre>>

db == <<inventory, open_sales, closed_sales, open_seq, closed_seq>>

----------------------------------------------------------------------------
(* Bounds *)

MaxOpenId == 2      \* SERIAL values handed out by open_sales
MaxClosedId == 1    \* SERIAL values handed out by closed_sales
InitStock == 2      \* stock of every inventory row at start
MaxStock == 2       \* no new request is started once a stock exceeds this

Procs == {1, 2}     \* request handlers that may be in flight together
SeqProcs == {1}     \* one handler: requests executed one at a time

Invoices == {"INV1", "INV2"}
OpenIds == 1..MaxOpenId
ClosedIds == 1..MaxClosedId
PayMethods == {"cash"}

NULL_TS == 0        \* SQL NULL in a TIMESTAMP column
NULL_STR == "<null>"    \* SQL NULL in a VARCHAR column

----------------------------------------------------------------------------
(* Line items and item lists of request bodies *)

Item(n, q) == [type |-> "item", item_name |-> n, qty |-> q]
Service(n, q) == [type |-> "service", item_name |-> n, qty |-> q]

ItemLists ==
  { <<Item("A", 1)>>,
    <<Item("A", 2)>>,
    <<Item("A", 1), Item("X", 1)>>,
    <<Service("X", 1), Service("A", 3), Item("A", 1)>> }

----------------------------------------------------------------------------
(* Synchronous helpers of the handlers *)

\* CURRENT_TIMESTAMP / new Date(): a logical clock that advances with every
\* row inserted into open_sales
now == open_seq + 1

\* !x of a body field: undefined or the empty string
Falsy(body, f) == IF f \in DOMAIN body THEN body[f] = "" ELSE TRUE

\* IsItem without telling services from items
IsItemOrService(item) == item.type \in {"item", "service"}

\* item.type === "item"
IsItem(item) == item.type = "item"

\* index of the first entry at or after `from` the loop body acts on
RECURSIVE NextItem(_, _)
NextItem(items, from) ==
  IF from > Len(items) THEN Len(items) + 1
  ELSE IF IsItem(items[from]) THEN from
  ELSE NextItem(items, from + 1)

\* SELECT * FROM inventory WHERE item_name = name
SelectItem(inv, name) == IF name \in DOMAIN inv THEN {inv[name]} ELSE {}

\* NotEnough letting a request take one more than the stock
NotEnoughOffByOne(row, item) == row.stock + 1 < item.qty

\* existing[0].stock < item.qty
NotEnough(row, item) == row.stock < item.qty

\* UPDATE inventory SET stock = stock - qty WHERE item_name = name
Deduct(inv, item) ==
  IF item.item_name \in DOMAIN inv
  THEN [inv EXCEPT ![item.item_name].stock = @ - item.qty]
  ELSE inv

\* Restock giving back one unit whatever the quantity
RestockOne(inv, item) ==
  IF item.item_name \in DOMAIN inv
  THEN [inv EXCEPT ![item.item_name].stock = @ + 1]
  ELSE inv

\* UPDATE inventory SET stock = stock + qty WHERE item_name = name
Restock(inv, item) ==
  IF item.item_name \in DOMAIN inv
  THEN [inv EXCEPT ![item.item_name].stock = @ + item.qty]
  ELSE inv

(* The stock loops of the handlers run to their end on a given inventory *)

\* the check-then-deduct loop of Create and Edit from position k on:
\* the inventory it leaves, and whether it reached the end of the list
RECURSIVE DeductLoop(_, _, _)
DeductLoop(inv, items, k) ==
  IF k > Len(items) THEN [inventory |-> inv, ok |-> TRUE]
  ELSE IF ~IsItem(items[k]) THEN DeductLoop(inv, items, k + 1)
  ELSE IF SelectItem(inv, items[k].item_name) = {} THEN [inventory |-> inv, ok |-> FALSE]
  ELSE IF \E row \in SelectItem(inv, items[k].item_name) : NotEnough(row, items[k])
       THEN [inventory |-> inv, ok |-> FALSE]
  ELSE DeductLoop(Deduct(inv, items[k]), items, k + 1)

\* the restock loop of Edit and Delete-open from position k on
RECURSIVE RestockLoop(_, _, _)
RestockLoop(inv, items, k) ==
  IF k > Len(items) THEN inv
  ELSE IF ~IsItem(items[k]) THEN RestockLoop(inv, items, k + 1)
  ELSE RestockLoop(Restock(inv, items[k]), items, k + 1)

\* invoice_number UNIQUE
InvoiceTaken(table, inv_no) == \E k \in DOMAIN table : table[k].invoice_number = inv_no

\* INSERT INTO open_sales (invoice_number, items): created_at defaults to now
NewOpenRow(inv_no, items, t) ==
  [invoice_number |-> inv_no, items |-> items, created_at |-> t,
   paid_at |-> NULL_TS, paid_using |-> NULL_STR]

\* ClosedRowOf writing no payment time
ClosedRowUnstamped(s, t, method) ==
  [invoice_number |-> s.invoice_number, items |-> s.items, created_at |-> s.created_at,
   paid_at |-> NULL_TS, paid_using |-> method]

\* INSERT INTO closed_sales (...) VALUES (s.invoice_number, s.items, s.created_at, paidAt, paid_using)
ClosedRowOf(s, t, method) ==
  [invoice_number |-> s.invoice_number, items |-> s.items, created_at |-> s.created_at,
   paid_at |-> t, paid_using |-> method]

\* OpenRowOf leaving created_at to the column default
OpenRowStamped(s) ==
  [invoice_number |-> s.invoice_number, items |-> s.items, created_at |-> now,
   paid_at |-> NULL_TS, paid_using |-> NULL_STR]

\* INSERT INTO open_sales (...) VALUES (s.invoice_number, s.items, s.created_at, null, null)
OpenRowOf(s) ==
  [invoice_number |-> s.invoice_number, items |-> s.items, created_at |-> s.created_at,
   paid_at |-> NULL_TS, paid_using |-> NULL_STR]

\* table with row k added / removed
AddRow(table, k, row) == [j \in DOMAIN table \cup {k} |-> IF j = k THEN row ELSE table[j]]
DelRow(table, k) == [j \in DOMAIN table \ {k} |-> table[j]]

NoSale == [invoice_number |-> "", items |-> <<>>, created_at |-> NULL_TS,
           paid_at |-> NULL_TS, paid_using |-> NULL_STR]

\* the database as a request finds it
Snapshot ==
  [inventory |-> inventory, open_sales |-> open_sales, closed_sales |-> closed_sales,
   open_seq |-> open_seq, closed_seq |-> closed_seq]

----------------------------------------------------------------------------
(* Initial state: two stocked inventory rows, no sales, no request in flight *)

Init ==
  /\ inventory = [n \in {"A", "B"} |->
                    [price |-> 10, stock |-> InitStock, item_classification |-> "goods"]]
  /\ open_sales = <<>>
  /\ closed_sales = <<>>
  /\ open_seq = 0
  /\ closed_seq = 0
  /\ pc = [p \in Procs |-> "idle"]
  /\ req = [p \in Procs |-> [op |-> "none"]]
  /\ idx = [p \in Procs |-> 0]
  /\ sale = [p \in Procs |-> NoSale]
  /\ paidAt = [p \in Procs |-> NULL_TS]
  /\ res = [p \in Procs |-> 0]
  /\ pre = [p \in Procs |->
             [inventory |-> inventory, open_sales |-> <<>>, closed_sales |-> <<>>,
              open_seq |-> 0, closed_seq |-> 0]]

----------------------------------------------------------------------------
(* Request bodies *)

CreateBodies ==
  {[op |-> "create", invoice_number |-> i, items |-> l] : i \in Invoices, l \in ItemLists}
    \cup {[op |-> "create", invoice_number |-> "", items |-> <<Item("A", 1)>>],
          [op |-> "create", invoice_number |-> "INV1"]}
EditBodies == {[op |-> "edit", id |-> k, items |-> l] : k \in OpenIds, l \in ItemLists}
DeleteBodies == {[op |-> "delete", id |-> k] : k \in OpenIds}
PayBodies ==
  {[op |-> "pay", id |-> k, paid_using |-> m] : k \in OpenIds, m \in PayMethods}
    \cup {[op |-> "pay", id |-> k] : k \in OpenIds}
RevertBodies == {[op |-> "revert", id |-> k] : k \in ClosedIds \cup {MaxClosedId + 1}}
DeleteClosedBodies == {[op |-> "delete_closed", id |-> k] : k \in ClosedIds \cup {MaxClosedId + 1}}

----------------------------------------------------------------------------
(* Handler bookkeeping *)

\* a handler slot is free, and the model's caps leave room for one more request
Ready(p) ==
  /\ pc[p] \in {"idle", "done"}
  /\ \A n \in DOMAIN inventory : inventory[n].stock <= MaxStock

\* no other handler is between its first and its last statement
Alone(p) == \A q \in Procs \ {p} : pc[q] \in {"idle", "done"}

Start(p, body, label, k, status) ==
  /\ req' = [req EXCEPT ![p] = body]
  /\ pre' = [pre EXCEPT ![p] = Snapshot]
  /\ pc' = [pc EXCEPT ![p] = label]
  /\ idx' = [idx EXCEPT ![p] = k]
  /\ res' = [res EXCEPT ![p] = status]
  /\ sale' = [sale EXCEPT ![p] = NoSale]
  /\ paidAt' = [paidAt EXCEPT ![p] = IF body.op = "pay" THEN now ELSE NULL_TS]

Goto(p, label, k) ==
  /\ pc' = [pc EXCEPT ![p] = label]
  /\ idx' = [idx EXCEPT ![p] = k]
  /\ res' = res

Reply(p, status) ==
  /\ pc' = [pc EXCEPT ![p] = "done"]
  /\ res' = [res EXCEPT ![p] = status]
  /\ idx' = idx

\* leave loop `loop` over `items` at position k, or fall through to `after`
Continue(p, items, k, loop, after) ==
  IF NextItem(items, k) <= Len(items)
  THEN Goto(p, loop, NextItem(items, k))
  ELSE Goto(p, after, 0)

----------------------------------------------------------------------------
(* POST /api/open-sales *)

BeginCreate(p, bodies) ==
  \E body \in bodies :
    /\ Ready(p)
    /\ open_seq < MaxOpenId
    /\ IF Falsy(body, "invoice_number") \/ "items" \notin DOMAIN body
       THEN Start(p, body, "done", 0, 400)
       ELSE IF NextItem(body.items, 1) <= Len(body.items)
            THEN Start(p, body, "c_select", NextItem(body.items, 1), 0)
            ELSE Start(p, body, "c_insert", 0, 0)
    /\ UNCHANGED db

\* CreateSelect checking each line against the stock the request started with
CreateSelectStale(p) ==
  /\ pc[p] = "c_select"
  /\ LET item == req[p].items[idx[p]]
         existing == SelectItem(pre[p].inventory, item.item_name)
     IN IF existing = {} THEN Reply(p, 400)
        ELSE IF \E row \in existing : NotEnough(row, item) THEN Reply(p, 400)
        ELSE Goto(p, "c_update", idx[p])
  /\ UNCHANGED <<db, req, sale, paidAt, pre>>

\* SELECT the inventory row of items[idx]; 400 when absent or short of stock
CreateSelect(p) ==
  /\ pc[p] = "c_select"
  /\ LET item == req[p].items[idx[p]]
         existing == SelectItem(inventory, item.item_name)
     IN IF existing = {} THEN Reply(p, 400)
        ELSE IF \E row \in existing : NotEnough(row, item) THEN Reply(p, 400)
        ELSE Goto(p, "c_update", idx[p])
  /\ UNCHANGED <<db, req, sale, paidAt, pre>>

\* UPDATE inventory SET stock = stock - qty, then on to the next line item
CreateUpdate(p) ==
  /\ pc[p] = "c_update"
  /\ inventory' = Deduct(inventory, req[p].items[idx[p]])
  /\ Continue(p, req[p].items, idx[p] + 1, "c_select", "c_insert")
  /\ UNCHANGED <<open_sales, closed_sales, open_seq, closed_seq, req, sale, paidAt, pre>>

\* INSERT INTO open_sales; a taken invoice_number raises, caught as 500
\* (the SERIAL value drawn for the row is spent either way)
CreateInsert(p) ==
  /\ pc[p] = "c_insert"
  /\ open_seq' = open_seq + 1
  /\ IF InvoiceTaken(open_sales, req[p].invoice_number)
     THEN /\ open_sales' = open_sales
          /\ Reply(p, 500)
     ELSE /\ open_sales' = AddRow(open_sales, open_seq + 1,
                                  NewOpenRow(req[p].invoice_number, req[p].items, now))
          /\ Reply(p, 201)
  /\ UNCHANGED <<inventory, closed_sales, closed_seq, req, sale, paidAt, pre>>

----------------------------------------------------------------------------
(* PUT /api/open-sales/:id *)

BeginEdit(p, bodies) ==
  \E body \in bodies :
    /\ Ready(p)
    /\ Start(p, body, "e_lookup", 0, 0)
    /\ UNCHANGED db

\* EditRestock that gives nothing back
EditRestockSkipped(p) ==
  /\ pc[p] = "e_restock"
  /\ inventory' = inventory
  /\ IF NextItem(sale[p].items, idx[p] + 1) <= Len(sale[p].items)
     THEN Goto(p, "e_restock", NextItem(sale[p].items, idx[p] + 1))
     ELSE Continue(p, req[p].items, 1, "e_select", "e_write")
  /\ UNCHANGED <<open_sales, closed_sales, open_seq, closed_seq, req, sale, paidAt, pre>>

\* EditSelect that wants more stock than the quantity asked for
EditSelectStrict(p) ==
  /\ pc[p] = "e_select"
  /\ LET newItem == req[p].items[idx[p]]
         existing == SelectItem(inventory, newItem.item_name)
     IN IF existing = {} THEN Reply(p, 400)
        ELSE IF \E row \in existing : row.stock <= newItem.qty THEN Reply(p, 400)
        ELSE Goto(p, "e_update", idx[p])
  /\ UNCHANGED <<db, req, sale, paidAt, pre>>

\* SELECT the open sale; 404 when absent, else oldItems = existingSale[0].items
EditLookup(p) ==
  /\ pc[p] = "e_lookup"
  /\ IF req[p].id \notin DOMAIN open_sales
     THEN /\ Reply(p, 404)
          /\ sale' = sale
     ELSE LET oldItems == open_sales[req[p].id].items
          IN /\ sale' = [sale EXCEPT ![p] = open_sales[req[p].id]]
             /\ IF NextItem(oldItems, 1) <= Len(oldItems)
                THEN Goto(p, "e_restock", NextItem(oldItems, 1))
                ELSE Continue(p, req[p].items, 1, "e_select", "e_write")
  /\ UNCHANGED <<db, req, paidAt, pre>>

\* UPDATE inventory SET stock = stock + oldItem.qty
EditRestock(p) ==
  /\ pc[p] = "e_restock"
  /\ inventory' = Restock(inventory, sale[p].items[idx[p]])
  /\ IF NextItem(sale[p].items, idx[p] + 1) <= Len(sale[p].items)
     THEN Goto(p, "e_restock", NextItem(sale[p].items, idx[p] + 1))
     ELSE Continue(p, req[p].items, 1, "e_select", "e_write")
  /\ UNCHANGED <<open_sales, closed_sales, open_seq, closed_seq, req, sale, paidAt, pre>>

\* SELECT the inventory row of items[idx]; 400 when absent or short of stock
EditSelect(p) ==
  /\ pc[p] = "e_select"
  /\ LET newItem == req[p].items[idx[p]]
         existing == SelectItem(inventory, newItem.item_name)
     IN IF existing = {} THEN Reply(p, 400)
        ELSE IF \E row \in existing : NotEnough(row, newItem) THEN Reply(p, 400)
        ELSE Goto(p, "e_update", idx[p])
  /\ UNCHANGED <<db, req, sale, paidAt, pre>>

\* UPDATE inventory SET stock = stock - newItem.qty
EditUpdate(p) ==
  /\ pc[p] = "e_update"
  /\ inventory' = Deduct(inventory, req[p].items[idx[p]])
  /\ Continue(p, req[p].items, idx[p] + 1, "e_select", "e_write")
  /\ UNCHANGED <<open_sales, closed_sales, open_seq, closed_seq, req, sale, paidAt, pre>>

\* UPDATE open_sales SET items = ... WHERE id RETURNING *; 404 when no row matched
EditWrite(p) ==
  /\ pc[p] = "e_write"
  /\ IF req[p].id \in DOMAIN open_sales
     THEN /\ open_sales' = [open_sales EXCEPT ![req[p].id].items = req[p].items]
          /\ Reply(p, 200)
     ELSE /\ open_sales' = open_sales
          /\ Reply(p, 404)
  /\ UNCHANGED <<inventory, closed_sales, open_seq, closed_seq, req, sale, paidAt, pre>>

----------------------------------------------------------------------------
(* DELETE /api/open-sales/:id *)

BeginDelete(p, bodies) ==
  \E body \in bodies :
    /\ Ready(p)
    /\ Start(p, body, "d_lookup", 0, 0)
    /\ UNCHANGED db

\* SELECT the open sale; 404 when absent, else items = sale[0].items
DeleteLookup(p) ==
  /\ pc[p] = "d_lookup"
  /\ IF req[p].id \notin DOMAIN open_sales
     THEN /\ Reply(p, 404)
          /\ sale' = sale
     ELSE /\ sale' = [sale EXCEPT ![p] = open_sales[req[p].id]]
          /\ Continue(p, open_sales[req[p].id].items, 1, "d_restock", "d_delete")
  /\ UNCHANGED <<db, req, paidAt, pre>>

\* UPDATE inventory SET stock = stock + item.qty
DeleteRestock(p) ==
  /\ pc[p] = "d_restock"
  /\ inventory' = Restock(inventory, sale[p].items[idx[p]])
  /\ Continue(p, sale[p].items, idx[p] + 1, "d_restock", "d_delete")
  /\ UNCHANGED <<open_sales, closed_sales, open_seq, closed_seq, req, sale, paidAt, pre>>

\* DELETE FROM open_sales WHERE id RETURNING *; 404 when no row matched
DeleteRemove(p) ==
  /\ pc[p] = "d_delete"
  /\ IF req[p].id \in DOMAIN open_sales
     THEN /\ open_sales' = DelRow(open_sales, req[p].id)
          /\ Reply(p, 200)
     ELSE /\ open_sales' = open_sales
          /\ Reply(p, 404)
  /\ UNCHANGED <<inventory, closed_sales, open_seq, closed_seq, req, sale, paidAt, pre>>

----------------------------------------------------------------------------
(* POST /api/pay-sale/:id *)

\* paidAt = new Date(); 400 when paid_using is missing
\* (no Pay that gets past validation is started once closed_sales has
\* handed out `cap` ids)
BeginPay(p, bodies, cap) ==
  \E body \in bodies :
    /\ Ready(p)
    /\ Falsy(body, "paid_using") \/ closed_seq < cap
    /\ IF Falsy(body, "paid_using")
       THEN Start(p, body, "done", 0, 400)
       ELSE Start(p, body, "p_lookup", 0, 0)
    /\ UNCHANGED db

\* PayLookup answering 200 for a sale it did not find
PayLookupAbsentOk(p) ==
  /\ pc[p] = "p_lookup"
  /\ IF req[p].id \notin DOMAIN open_sales
     THEN /\ Reply(p, 200)
          /\ sale' = sale
     ELSE /\ sale' = [sale EXCEPT ![p] = open_sales[req[p].id]]
          /\ Goto(p, "p_insert", 0)
  /\ UNCHANGED <<db, req, paidAt, pre>>

\* SELECT the open sale; 404 when absent, else s = sale[0]
PayLookup(p) ==
  /\ pc[p] = "p_lookup"
  /\ IF req[p].id \notin DOMAIN open_sales
     THEN /\ Reply(p, 404)
          /\ sale' = sale
     ELSE /\ sale' = [sale EXCEPT ![p] = open_sales[req[p].id]]
          /\ Goto(p, "p_insert", 0)
  /\ UNCHANGED <<db, req, paidAt, pre>>

\* PayInsert run after the DELETE FROM open_sales instead of before it
PayInsertAfterDelete(p) ==
  /\ pc[p] = "p_insert"
  /\ closed_seq' = closed_seq + 1
  /\ open_sales' = DelRow(open_sales, req[p].id)
  /\ IF InvoiceTaken(closed_sales, sale[p].invoice_number)
     THEN /\ closed_sales' = closed_sales
          /\ Reply(p, 500)
     ELSE /\ closed_sales' = AddRow(closed_sales, closed_seq + 1,
                                    ClosedRowOf(sale[p], paidAt[p], req[p].paid_using))
          /\ Goto(p, "p_delete", 0)
  /\ UNCHANGED <<inventory, open_seq, req, sale, paidAt, pre>>

\* INSERT INTO closed_sales; a taken invoice_number raises, caught as 500
PayInsert(p) ==
  /\ pc[p] = "p_insert"
  /\ closed_seq' = closed_seq + 1
  /\ IF InvoiceTaken(closed_sales, sale[p].invoice_number)
     THEN /\ closed_sales' = closed_sales
          /\ Reply(p, 500)
     ELSE /\ closed_sales' = AddRow(closed_sales, closed_seq + 1,
                                    ClosedRowOf(sale[p], paidAt[p], req[p].paid_using))
          /\ Goto(p, "p_delete", 0)
  /\ UNCHANGED <<inventory, open_sales, open_seq, req, sale, paidAt, pre>>

\* DELETE FROM open_sales WHERE id
PayRemove(p) ==
  /\ pc[p] = "p_delete"
  /\ open_sales' = DelRow(open_sales, req[p].id)
  /\ Reply(p, 200)
  /\ UNCHANGED <<inventory, closed_sales, open_seq, closed_seq, req, sale, paidAt, pre>>

----------------------------------------------------------------------------
(* POST /api/revert-sale/:id *)

\* (no Revert is started once open_sales has handed out `cap` ids)
BeginRevert(p, bodies, cap) ==
  \E body \in bodies :
    /\ Ready(p)
    /\ open_seq < cap
    /\ Start(p, body, "r_lookup", 0, 0)
    /\ UNCHANGED db

\* SELECT the closed sale; 404 when absent, else s = sale[0]
RevertLookup(p) ==
  /\ pc[p] = "r_lookup"
  /\ IF req[p].id \notin DOMAIN closed_sales
     THEN /\ Reply(p, 404)
          /\ sale' = sale
     ELSE /\ sale' = [sale EXCEPT ![p] = closed_sales[req[p].id]]
          /\ Goto(p, "r_insert", 0)
  /\ UNCHANGED <<db, req, paidAt, pre>>

\* INSERT INTO open_sales; a taken invoice_number raises, caught as 500
RevertInsert(p) ==
  /\ pc[p] = "r_insert"
  /\ open_seq' = open_seq + 1
  /\ IF InvoiceTaken(open_sales, sale[p].invoice_number)
     THEN /\ open_sales' = open_sales
          /\ Reply(p, 500)
     ELSE /\ open_sales' = AddRow(open_sales, open_seq + 1, OpenRowOf(sale[p]))
          /\ Goto(p, "r_delete", 0)
  /\ UNCHANGED <<inventory, closed_sales, closed_seq, req, sale, paidAt, pre>>

\* DELETE FROM closed_sales WHERE id
RevertRemove(p) ==
  /\ pc[p] = "r_delete"
  /\ closed_sales' = DelRow(closed_sales, req[p].id)
  /\ Reply(p, 200)
  /\ UNCHANGED <<inventory, open_sales, open_seq, closed_seq, req, sale, paidAt, pre>>

----------------------------------------------------------------------------
(* DELETE /api/closed-sales/:id *)

BeginDeleteClosed(p, bodies) ==
  \E body \in bodies :
    /\ Ready(p)
    /\ Start(p, body, "x_delete", 0, 0)
    /\ UNCHANGED db

\* DeleteClosedRemove restocking the items of the sale, as Delete-open does
DeleteClosedRestocking(p) ==
  /\ pc[p] = "x_delete"
  /\ IF req[p].id \in DOMAIN closed_sales
     THEN /\ closed_sales' = DelRow(closed_sales, req[p].id)
          /\ inventory' = RestockLoop(inventory, closed_sales[req[p].id].items, 1)
          /\ Reply(p, 200)
     ELSE /\ closed_sales' = closed_sales
          /\ inventory' = inventory
          /\ Reply(p, 404)
  /\ UNCHANGED <<open_sales, open_seq, closed_seq, req, sale, paidAt, pre>>

\* DELETE FROM closed_sales WHERE id RETURNING *; 404 when no row matched
DeleteClosedRemove(p) ==
  /\ pc[p] = "x_delete"
  /\ IF req[p].id \in DOMAIN closed_sales
     THEN /\ closed_sales' = DelRow(closed_sales, req[p].id)
          /\ Reply(p, 200)
     ELSE /\ closed_sales' = closed_sales
          /\ Reply(p, 404)
  /\ UNCHANGED <<inventory, open_sales, open_seq, closed_seq, req, sale, paidAt, pre>>

----------------------------------------------------------------------------
(* POST /api/inventory *)

\* stock || 0
StockOrZero(body) == IF "stock" \in DOMAIN body THEN body.stock ELSE 0

\* an item_classification the body leaves out reaches SQL as NULL
ClassOrNull(body) ==
  IF "item_classification" \in DOMAIN body THEN body.item_classification ELSE NULL_STR

\* COALESCE(given, current)
Coalesce(given, current) == IF given = NULL_STR THEN current ELSE given

\* 400 when item_name is missing or empty, or price is undefined
BeginUpsert(p, bodies) ==
  \E body \in bodies :
    /\ Ready(p)
    /\ IF Falsy(body, "item_name") \/ "price" \notin DOMAIN body
       THEN Start(p, body, "done", 0, 400)
       ELSE Start(p, body, "u_select", 0, 0)
    /\ UNCHANGED db

\* SELECT * FROM inventory WHERE item_name; existing.length > 0 picks the branch
UpsertSelect(p) ==
  /\ pc[p] = "u_select"
  /\ IF SelectItem(inventory, req[p].item_name) # {}
     THEN Goto(p, "u_update", 0)
     ELSE Goto(p, "u_insert", 0)
  /\ UNCHANGED <<db, req, sale, paidAt, pre>>

\* UpsertUpdate setting the stock to the given value instead of adding it
UpsertUpdateOverwriting(p) ==
  /\ pc[p] = "u_update"
  /\ inventory' =
       IF req[p].item_name \in DOMAIN inventory
       THEN [inventory EXCEPT ![req[p].item_name] =
               [price |-> req[p].price,
                stock |-> StockOrZero(req[p]),
                item_classification |-> Coalesce(ClassOrNull(req[p]), @.item_classification)]]
       ELSE inventory
  /\ Reply(p, 200)
  /\ UNCHANGED <<open_sales, closed_sales, open_seq, closed_seq, req, sale, paidAt, pre>>

\* UPDATE inventory SET stock = stock + (stock || 0), price = price,
\* item_classification = COALESCE(item_classification, item_classification)
UpsertUpdate(p) ==
  /\ pc[p] = "u_update"
  /\ inventory' =
       IF req[p].item_name \in DOMAIN inventory
       THEN [inventory EXCEPT ![req[p].item_name] =
               [price |-> req[p].price,
                stock |-> @.stock + StockOrZero(req[p]),
                item_classification |-> Coalesce(ClassOrNull(req[p]), @.item_classification)]]
       ELSE inventory
  /\ Reply(p, 200)
  /\ UNCHANGED <<open_sales, closed_sales, open_seq, closed_seq, req, sale, paidAt, pre>>

\* INSERT INTO inventory; a taken item_name raises, caught as 500
UpsertInsert(p) ==
  /\ pc[p] = "u_insert"
  /\ IF req[p].item_name \in DOMAIN inventory
     THEN /\ inventory' = inventory
          /\ Reply(p, 500)
     ELSE /\ inventory' = AddRow(inventory, req[p].item_name,
                                 [price |-> req[p].price,
                                  stock |-> StockOrZero(req[p]),
                                  item_classification |-> ClassOrNull(req[p])])
          /\ Reply(p, 201)
  /\ UNCHANGED <<open_sales, closed_sales, open_seq, closed_seq, req, sale, paidAt, pre>>

----------------------------------------------------------------------------
(* Specifications *)

Begin(p) ==
  \/ BeginCreate(p, CreateBodies) \/ BeginEdit(p, EditBodies)
  \/ BeginDelete(p, DeleteBodies) \/ BeginPay(p, PayBodies, MaxClosedId)
  \/ BeginRevert(p, RevertBodies, MaxOpenId) \/ BeginDeleteClosed(p, DeleteClosedBodies)

Step(p) ==
  \/ CreateSelect(p) \/ CreateUpdate(p) \/ CreateInsert(p)
  \/ EditLookup(p) \/ EditRestock(p) \/ EditSelect(p) \/ EditUpdate(p) \/ EditWrite(p)
  \/ DeleteLookup(p) \/ DeleteRestock(p) \/ DeleteRemove(p)
  \/ PayLookup(p) \/ PayInsert(p) \/ PayRemove(p)
  \/ RevertLookup(p) \/ RevertInsert(p) \/ RevertRemove(p)
  \/ DeleteClosedRemove(p)

\* requests are executed one at a time
Next == \E p \in SeqProcs : Begin(p) \/ Step(p)

Spec == Init /\ [][Next]_vars

(* Two clients taking turns: a request starts only when no other is in     *)
(* flight, and each handler keeps what its last request saw and answered.  *)
(* A sale may be moved once more after the last Create, so that a move     *)
(* can meet its own invoice_number in the store it moves to.               *)

TurnCreateBodies ==
  {[op |-> "create", invoice_number |-> i, items |-> l] :
     i \in Invoices, l \in {<<>>, <<Service("X", 1), Item("A", 1)>>}}
TurnPayBodies == {[op |-> "pay", id |-> k, paid_using |-> m] : k \in OpenIds, m \in PayMethods}
TurnRevertBodies == {[op |-> "revert", id |-> k] : k \in ClosedIds}

TurnBegin(p) ==
  /\ Alone(p)
  /\ \/ BeginCreate(p, TurnCreateBodies)
     \/ BeginPay(p, TurnPayBodies, MaxClosedId + 1)
     \/ BeginRevert(p, TurnRevertBodies, MaxOpenId + 1)

TurnStep(p) ==
  \/ CreateSelect(p) \/ CreateUpdate(p) \/ CreateInsert(p)
  \/ PayLookup(p) \/ PayInsert(p) \/ PayRemove(p)
  \/ RevertLookup(p) \/ RevertInsert(p) \/ RevertRemove(p)

TurnNext == \E p \in Procs : TurnBegin(p) \/ TurnStep(p)

SpecTurns == Init /\ [][TurnNext]_vars

(* Two requests in flight together: the statements of a Create and of      *)
(* another Create or an Edit interleave in every order.                    *)

RaceCreateBodies ==
  {[op |-> "create", invoice_number |-> i, items |-> l] :
     i \in Invoices, l \in {<<Item("A", 2)>>}}
RaceEditBodies == {[op |-> "edit", id |-> k, items |-> <<Item("A", 2)>>] : k \in OpenIds}

RaceBegin(p) == BeginCreate(p, RaceCreateBodies) \/ BeginEdit(p, RaceEditBodies)

RaceStep(p) ==
  \/ CreateSelect(p) \/ CreateUpdate(p) \/ CreateInsert(p)
  \/ EditLookup(p) \/ EditRestock(p) \/ EditSelect(p) \/ EditUpdate(p) \/ EditWrite(p)

RaceNext == \E p \in Procs : RaceBegin(p) \/ RaceStep(p)

SpecRace == Init /\ [][RaceNext]_vars

(* Two requests on one open sale in flight together: after the one sale is *)
(* created, a Delete-open meets a Delete-open or an Edit, or an Edit meets *)
(* a Pay, and their statements interleave in every order.                  *)

SameSaleCreateBodies == {[op |-> "create", invoice_number |-> "INV1", items |-> <<Item("A", 1)>>]}
SameSaleEditBodies == {[op |-> "edit", id |-> 1, items |-> <<Item("A", 2)>>]}
SameSaleDeleteBodies == {[op |-> "delete", id |-> 1]}
SameSalePayBodies == {[op |-> "pay", id |-> 1, paid_using |-> m] : m \in PayMethods}

\* the operations that may be in flight together
Overlaps == {<<"delete", "delete">>, <<"edit", "delete">>, <<"delete", "edit">>,
             <<"edit", "pay">>, <<"pay", "edit">>}

\* handler p may start `op` next to what the other handlers are doing
MayStart(p, op) ==
  \A q \in Procs \ {p} : pc[q] \in {"idle", "done"} \/ <<op, req[q].op>> \in Overlaps

SameSaleBegin(p) ==
  \/ open_seq = 0 /\ MayStart(p, "create") /\ BeginCreate(p, SameSaleCreateBodies)
  \/ MayStart(p, "edit") /\ BeginEdit(p, SameSaleEditBodies)
  \/ MayStart(p, "delete") /\ BeginDelete(p, SameSaleDeleteBodies)
  \/ MayStart(p, "pay") /\ BeginPay(p, SameSalePayBodies, MaxClosedId)

SameSaleStep(p) ==
  \/ CreateSelect(p) \/ CreateUpdate(p) \/ CreateInsert(p)
  \/ EditLookup(p) \/ EditRestock(p) \/ EditSelect(p) \/ EditUpdate(p) \/ EditWrite(p)
  \/ DeleteLookup(p) \/ DeleteRestock(p) \/ DeleteRemove(p)
  \/ PayLookup(p) \/ PayInsert(p) \/ PayRemove(p)

SameSaleNext == \E p \in Procs : SameSaleBegin(p) \/ SameSaleStep(p)

SpecSameSale == Init /\ [][SameSaleNext]_vars

(* One client stocking the inventory and creating sales, with the bodies   *)
(* input validation is about and item lists that name an item repeatedly.  *)

Prices == {12}

UpsertBodies ==
  {[op |-> "upsert", item_name |-> n, price |-> pr] : n \in {"A", "C"}, pr \in Prices}
    \cup {[op |-> "upsert", item_name |-> n, price |-> pr, stock |-> 1,
           item_classification |-> "parts"] : n \in {"A", "C"}, pr \in Prices}
    \cup {[op |-> "upsert", item_name |-> "", price |-> 12, stock |-> 1],
          [op |-> "upsert", price |-> 12, stock |-> 1],
          [op |-> "upsert", item_name |-> "C", stock |-> 1]}

IntakeLists ==
  { <<>>,
    <<Item("A", 1), Item("A", 1)>>,
    <<Item("A", 2), Item("A", 1)>>,
    <<Item("C", 1), Item("A", 1), Item("C", 1)>> }

IntakeCreateBodies ==
  {[op |-> "create", invoice_number |-> i, items |-> l] : i \in Invoices, l \in IntakeLists}
    \cup {[op |-> "create", invoice_number |-> "", items |-> <<Item("A", 1), Item("A", 1)>>],
          [op |-> "create", items |-> <<Item("A", 1), Item("A", 1)>>],
          [op |-> "create", invoice_number |-> "INV1"]}

IntakeBegin(p) == BeginCreate(p, IntakeCreateBodies) \/ BeginUpsert(p, UpsertBodies)

IntakeStep(p) ==
  \/ CreateSelect(p) \/ CreateUpdate(p) \/ CreateInsert(p)
  \/ UpsertSelect(p) \/ UpsertUpdate(p) \/ UpsertInsert(p)

IntakeNext == \E p \in SeqProcs : IntakeBegin(p) \/ IntakeStep(p)

SpecIntake == Init /\ [][IntakeNext]_vars

----------------------------------------------------------------------------
(* Vocabulary of the properties *)

Quiet == \A p \in Procs : pc[p] \in {"idle", "done"}
Done(p, op) == pc[p] = "done" /\ req[p].op = op

\* total quantity of item-type line items of `items` that name n
RECURSIVE Qty(_, _)
Qty(items, n) ==
  IF items = <<>> THEN 0
  ELSE (IF Head(items).type = "item" /\ Head(items).item_name = n THEN Head(items).qty ELSE 0)
         + Qty(Tail(items), n)

\* total quantity of n over the item-type line items of the rows `ids` of a table
RECURSIVE HeldIn(_, _, _)
HeldIn(table, ids, n) ==
  IF ids = {} THEN 0
  ELSE LET k == CHOOSE j \in ids : TRUE
       IN Qty(table[k].items, n) + HeldIn(table, ids \ {k}, n)

Held(table, n) == HeldIn(table, DOMAIN table, n)

\* a list with its service-type line items removed
IsNotService(item) == item.type # "service"
Strip(items) == SelectSeq(items, IsNotService)

\* a Create that got past input validation and was turned down by the stock loop
CreateRejected(p) ==
  /\ Done(p, "create") /\ res[p] = 400
  /\ "items" \in DOMAIN req[p] /\ ~Falsy(req[p], "invoice_number")

\* an Edit of an existing sale that was turned down by the stock loop
EditRejected(p) == Done(p, "edit") /\ res[p] = 400

\* the stores and the inventory are as request p found them
Untouched(p) ==
  /\ inventory = pre[p].inventory
  /\ open_sales = pre[p].open_sales
  /\ closed_sales = pre[p].closed_sales

\* every item-type line item of `items` names a row of inventory inv
Known(inv, items) ==
  \A k \in DOMAIN items : IsItem(items[k]) => items[k].item_name \in DOMAIN inv

----------------------------------------------------------------------------
(* C1: a Create that fails reconciliation inserts no open sale and leaves   *)
(* the stock of every inventory item exactly as it was before the request. *)
C1_FailedCreateLeavesNoTrace ==
  \A p \in Procs :
    CreateRejected(p) =>
      /\ open_sales = pre[p].open_sales
      /\ inventory = pre[p].inventory

(* C2: an Edit that fails with InsufficientStock or unknown item leaves    *)
(* the inventory and the stored sale record as they were before it.        *)
C2_FailedEditLeavesNoTrace ==
  \A p \in Procs :
    EditRejected(p) =>
      /\ inventory = pre[p].inventory
      /\ open_sales = pre[p].open_sales

(* C3: between requests, after Create, Edit and Delete-open requests only  *)
(* (no sale was ever paid), every item's stock is the initial stock minus  *)
(* the quantity of that item held by the sales in the open store.          *)
C3_StockConservation ==
  (Quiet /\ closed_seq = 0) =>
    \A n \in DOMAIN inventory :
      inventory[n].stock = InitStock - Held(open_sales, n)

(* C4: with requests executed one at a time, no stock is ever negative,    *)
(* the states between the statements of one Edit included.                 *)
C4_StockNeverNegative ==
  \A n \in DOMAIN inventory : inventory[n].stock >= 0

\* an Edit has restocked the old items and deducted a new one down to zero
C4_Witness ==
  \E p \in Procs :
    /\ req[p].op = "edit" /\ pc[p] \in {"e_select", "e_write"}
    /\ Qty(sale[p].items, "A") > 0
    /\ pre[p].inventory["A"].stock = 0
    /\ inventory["A"].stock = 0

(* C6: between requests no invoice_number is present in both the open    *)
(* store and the closed store.                                             *)
C6_OneStorePerInvoice ==
  Quiet =>
    \A k \in DOMAIN open_sales : \A j \in DOMAIN closed_sales :
      open_sales[k].invoice_number # closed_sales[j].invoice_number

(* C8: Pay, Revert and Delete-closed leave the inventory as it was before  *)
(* the request, at every statement of the handler and whatever the reply.  *)
C8_MovesLeaveInventory ==
  \A p \in Procs :
    req[p].op \in {"pay", "revert", "delete_closed"} => inventory = pre[p].inventory

\* a closed sale holding stock has been deleted, a paid sale has been reverted
C8_Witness ==
  \E p \in Procs :
    /\ Done(p, "delete_closed") /\ res[p] = 200
    /\ Qty(pre[p].closed_sales[req[p].id].items, "A") > 0
    /\ inventory["A"].stock < InitStock

(* C9: Delete-open of an existing open sale adds to every item's stock the *)
(* quantity its item-type line items hold of it, changes nothing else of   *)
(* the inventory, and removes the record from the open store.              *)
C9_DeleteOpenRestocks ==
  \A p \in Procs :
    (Done(p, "delete") /\ res[p] = 200) =>
      /\ open_sales = DelRow(pre[p].open_sales, req[p].id)
      /\ inventory =
           [n \in DOMAIN pre[p].inventory |->
              [pre[p].inventory[n] EXCEPT
                 !.stock = @ + Qty(pre[p].open_sales[req[p].id].items, n)]]

\* a sale holding two of an item that was out of stock has been deleted
C9_Witness ==
  \E p \in Procs :
    /\ Done(p, "delete") /\ res[p] = 200
    /\ pre[p].inventory["A"].stock = 0
    /\ inventory["A"].stock = 2
    /\ inventory["B"].stock = pre[p].inventory["B"].stock

(* C10: the stock every Create, Edit and Delete-open leaves, and whether   *)
(* the request succeeds, are those of the same request with its            *)
(* service-type line items removed.                                        *)
C10_ServicesDoNotCount ==
  \A p \in Procs :
    /\ (Done(p, "create") /\ "items" \in DOMAIN req[p] /\ ~Falsy(req[p], "invoice_number")) =>
         LET r == DeductLoop(pre[p].inventory, Strip(req[p].items), 1)
         IN /\ inventory = r.inventory
            /\ (res[p] = 400) <=> ~r.ok
    /\ (Done(p, "edit") /\ res[p] # 404) =>
         LET old == pre[p].open_sales[req[p].id].items
             r == DeductLoop(RestockLoop(pre[p].inventory, Strip(old), 1),
                             Strip(req[p].items), 1)
         IN /\ inventory = r.inventory
            /\ (res[p] = 200) <=> r.ok
    /\ (Done(p, "delete") /\ res[p] # 404) =>
         LET old == pre[p].open_sales[req[p].id].items
         IN inventory = RestockLoop(pre[p].inventory, Strip(old), 1)

\* a sale with services named like an inventory item and like none was
\* created, edited or deleted, and only its item moved stock
C10_Witness ==
  \E p \in Procs :
    /\ Done(p, "delete") /\ res[p] = 200
    /\ Len(Strip(pre[p].open_sales[req[p].id].items)) < Len(pre[p].open_sales[req[p].id].items)
    /\ inventory["A"].stock = pre[p].inventory["A"].stock + 1

(* C5: when two sale-affecting requests that touch the same item run     *)
(* together, each one's sufficiency check and deduction act as one step:   *)
(* no interleaving drives the item's stock below zero.                     *)
C5_NoOversellUnderRace ==
  ~ \E n \in DOMAIN inventory : inventory[n].stock < 0

\* the Revert of handler q started in the state the Pay of handler p left,
\* on the closed sale that Pay inserted
RevertFollowsPay(p, q) ==
  /\ Done(p, "pay") /\ res[p] = 200
  /\ Done(q, "revert") /\ res[q] = 200
  /\ req[q].id = pre[p].closed_seq + 1
  /\ req[q].id \in DOMAIN pre[q].closed_sales
  /\ pre[q].closed_sales = AddRow(pre[p].closed_sales, req[q].id, pre[q].closed_sales[req[q].id])
  /\ pre[q].open_sales = DelRow(pre[p].open_sales, req[p].id)

(* C7: Pay followed by Revert of the same sale is a round trip: the open   *)
(* record that results has the invoice_number, items and created_at of the *)
(* open record before Pay, paid_at and paid_using null, and the closed     *)
(* store no longer contains the sale.                                      *)
C7_PayRevertRoundTrip ==
  \A p \in Procs : \A q \in Procs \ {p} :
    RevertFollowsPay(p, q) =>
      LET before == pre[p].open_sales[req[p].id]
      IN /\ open_sales = AddRow(DelRow(pre[p].open_sales, req[p].id), open_seq,
                                [before EXCEPT !.paid_at = NULL_TS, !.paid_using = NULL_STR])
         /\ open_sales[open_seq].invoice_number = before.invoice_number
         /\ open_sales[open_seq].items = before.items
         /\ open_sales[open_seq].created_at = before.created_at
         /\ open_sales[open_seq].paid_at = NULL_TS
         /\ open_sales[open_seq].paid_using = NULL_STR
         /\ closed_sales = pre[p].closed_sales
         /\ ~InvoiceTaken(closed_sales, before.invoice_number)

\* a sale with an item list was paid and reverted, later than it was created
C7_Witness ==
  \E p \in Procs : \E q \in Procs \ {p} :
    /\ RevertFollowsPay(p, q)
    /\ Len(pre[p].open_sales[req[p].id].items) > 1
    /\ open_sales[open_seq].created_at < open_seq

(* C13: every record of the open store has paid_at and paid_using null,    *)
(* every record of the closed store has both non-null, and a Pay without   *)
(* paid_using is answered 400, closes nothing and keeps the sale open.     *)
C13_PaidFieldsMatchStore ==
  /\ \A k \in DOMAIN open_sales :
       open_sales[k].paid_at = NULL_TS /\ open_sales[k].paid_using = NULL_STR
  /\ \A k \in DOMAIN closed_sales :
       closed_sales[k].paid_at # NULL_TS /\ closed_sales[k].paid_using # NULL_STR
  /\ \A p \in Procs :
       (Done(p, "pay") /\ Falsy(req[p], "paid_using")) =>
         /\ res[p] = 400
         /\ closed_sales = pre[p].closed_sales
         /\ open_sales = pre[p].open_sales

\* with one sale paid, a Pay without paid_using was sent for a sale that is open
C13_Witness ==
  \E p \in Procs :
    /\ Done(p, "pay") /\ Falsy(req[p], "paid_using")
    /\ req[p].id \in DOMAIN open_sales
    /\ closed_sales # <<>>

C18_DuplicateInvoiceLeavesNoTrace ==
  \A p \in Procs :
    (/\ Done(p, "create") /\ "items" \in DOMAIN req[p] /\ ~Falsy(req[p], "invoice_number")
     /\ InvoiceTaken(pre[p].open_sales, req[p].invoice_number)
     /\ DeductLoop(pre[p].inventory, req[p].items, 1).ok) =>
      /\ res[p] # 201
      /\ open_sales = pre[p].open_sales
      /\ inventory = pre[p].inventory

(* C15: an Edit of an open sale whose new items are all inventory items    *)
(* succeeds exactly when, for every item, the stock plus the quantity the  *)
(* sale held is at least the new quantity; on success every stock is the   *)
(* old stock plus the old quantity minus the new one, and the record has   *)
(* the new item list and is otherwise unchanged.                           *)
C15_EditRestocksThenDeducts ==
  \A p \in Procs :
    (/\ Done(p, "edit") /\ req[p].id \in DOMAIN pre[p].open_sales
     /\ Known(pre[p].inventory, req[p].items)) =>
      LET old == pre[p].open_sales[req[p].id].items
          new == req[p].items
          inv == pre[p].inventory
      IN /\ res[p] \in {200, 400}
         /\ (res[p] = 200) <=>
              \A n \in DOMAIN inv : inv[n].stock + Qty(old, n) >= Qty(new, n)
         /\ (res[p] = 200) =>
              /\ inventory =
                   [n \in DOMAIN inv |->
                      [inv[n] EXCEPT !.stock = @ + Qty(old, n) - Qty(new, n)]]
              /\ open_sales = [pre[p].open_sales EXCEPT ![req[p].id].items = new]
              /\ closed_sales = pre[p].closed_sales

\* a sale holding one of an item with one left in stock was edited to hold two
C15_Witness ==
  \E p \in Procs :
    /\ Done(p, "edit") /\ res[p] = 200
    /\ Qty(pre[p].open_sales[req[p].id].items, "A") = 1
    /\ Qty(req[p].items, "A") = 2
    /\ pre[p].inventory["A"].stock = 1
    /\ inventory["A"].stock = 0

(* C20: when every item of an open sale is in the inventory and no stock   *)
(* is negative, an Edit whose item list equals the stored one is answered  *)
(* 200 and leaves every stock and every record as they were; so does the   *)
(* repetition of a successful Edit, whose list is the stored one by then.  *)
C20_EditSameListIsNoOp ==
  \A p \in Procs :
    (/\ Done(p, "edit") /\ req[p].id \in DOMAIN pre[p].open_sales
     /\ req[p].items = pre[p].open_sales[req[p].id].items
     /\ Known(pre[p].inventory, req[p].items)
     /\ \A n \in DOMAIN pre[p].inventory : pre[p].inventory[n].stock >= 0) =>
      /\ res[p] = 200
      /\ Untouched(p)

\* a sale with services and an item that is out of stock was edited to the
\* list it already had
C20_Witness ==
  \E p \in Procs :
    /\ Done(p, "edit") /\ res[p] = 200
    /\ req[p].id \in DOMAIN pre[p].open_sales
    /\ req[p].items = pre[p].open_sales[req[p].id].items
    /\ Len(req[p].items) > 1
    /\ pre[p].inventory["A"].stock = 0

\* some record of the open or the closed store carries the invoice_number
\* and the items of sale s
Kept(s) ==
  \/ \E k \in DOMAIN open_sales :
       open_sales[k].invoice_number = s.invoice_number /\ open_sales[k].items = s.items
  \/ \E k \in DOMAIN closed_sales :
       closed_sales[k].invoice_number = s.invoice_number /\ closed_sales[k].items = s.items

(* C19: from the first statement of a Pay or a Revert of an existing sale  *)
(* on, whatever the reply, the invoice_number of the sale is in the open   *)
(* or in the closed store, with the items the sale had.                    *)
C19_MovesNeverLoseASale ==
  \A p \in Procs :
    /\ (req[p].op = "pay" /\ req[p].id \in DOMAIN pre[p].open_sales) =>
         Kept(pre[p].open_sales[req[p].id])
    /\ (req[p].op = "revert" /\ req[p].id \in DOMAIN pre[p].closed_sales) =>
         Kept(pre[p].closed_sales[req[p].id])

\* a Pay and a Revert were both turned down by the store they insert into,
\* which held the invoice_number already
C19_Witness ==
  \E p \in Procs : \E q \in Procs \ {p} :
    /\ Done(p, "pay") /\ res[p] = 500
    /\ Done(q, "revert") /\ res[q] = 500
    /\ req[p].id \in DOMAIN open_sales
    /\ req[q].id \in DOMAIN closed_sales

(* C11: a Create whose invoice_number is missing or empty, or whose item   *)
(* list is missing or is the empty list, is answered 400, inserts no open  *)
(* sale and changes no stock.                                              *)
C11_CreateNeedsInvoiceAndItems ==
  \A p \in Procs :
    (/\ Done(p, "create")
     /\ \/ Falsy(req[p], "invoice_number")
        \/ "items" \notin DOMAIN req[p]
        \/ req[p].items = <<>>) =>
      /\ res[p] = 400
      /\ Untouched(p)

(* C12: a Create with a fresh invoice_number whose lines name inventory    *)
(* items, some of them more than once, is answered 201 exactly when every  *)
(* item's stock is at least the sum of the quantities of its lines, and    *)
(* then every stock is reduced by exactly that sum.                        *)
C12_RepeatedItemsAdd ==
  \A p \in Procs :
    (/\ Done(p, "create") /\ "items" \in DOMAIN req[p] /\ ~Falsy(req[p], "invoice_number")
     /\ Known(pre[p].inventory, req[p].items)
     /\ ~InvoiceTaken(pre[p].open_sales, req[p].invoice_number)) =>
      LET inv == pre[p].inventory
      IN /\ res[p] \in {201, 400}
         /\ (res[p] = 201) <=>
              \A n \in DOMAIN inv : inv[n].stock >= Qty(req[p].items, n)
         /\ (res[p] = 201) =>
              inventory =
                [n \in DOMAIN inv |-> [inv[n] EXCEPT !.stock = @ - Qty(req[p].items, n)]]

\* a sale naming one item in two lines and another item between them was
\* created and took the last two pieces of the first
C12_Witness ==
  \E p \in Procs :
    /\ Done(p, "create") /\ res[p] = 201
    /\ Len(req[p].items) = 3
    /\ Qty(req[p].items, "C") = 2
    /\ pre[p].inventory["C"].stock = 2
    /\ inventory["C"].stock = 0

(* C14: an upsert of an item_name the inventory has keeps one row for it,  *)
(* with the given price, the old stock plus the given stock (plus 0 when   *)
(* none is given) and the given classification, or the old one when none   *)
(* is given; an upsert of a new item_name adds one row whose stock is the  *)
(* given stock, or 0.  No other row and no sale changes.                   *)
C14_UpsertAddsStock ==
  \A p \in Procs :
    (Done(p, "upsert") /\ ~Falsy(req[p], "item_name") /\ "price" \in DOMAIN req[p]) =>
      LET inv == pre[p].inventory
          n == req[p].item_name
          inc == IF "stock" \in DOMAIN req[p] THEN req[p].stock ELSE 0
      IN /\ open_sales = pre[p].open_sales /\ closed_sales = pre[p].closed_sales
         /\ \A m \in DOMAIN inv \ {n} : m \in DOMAIN inventory /\ inventory[m] = inv[m]
         /\ DOMAIN inventory = DOMAIN inv \cup {n}
         /\ inventory[n].price = req[p].price
         /\ IF n \in DOMAIN inv
            THEN /\ res[p] = 200
                 /\ inventory[n].stock = inv[n].stock + inc
                 /\ inventory[n].item_classification =
                      IF "item_classification" \in DOMAIN req[p]
                      THEN req[p].item_classification
                      ELSE inv[n].item_classification
            ELSE /\ res[p] = 201
                 /\ inventory[n].stock = inc

\* a row that an upsert had created with stock and a classification was
\* upserted again without either, at a time when some of it was sold
C14_Witness ==
  \E p \in Procs :
    /\ Done(p, "upsert") /\ res[p] = 200
    /\ req[p].item_name = "C"
    /\ "stock" \notin DOMAIN req[p]
    /\ inventory["C"].item_classification = "parts"
    /\ Held(open_sales, "C") > 0

(* C16: whenever a Delete-open has run together with a Delete-open or an   *)
(* Edit, or an Edit together with a Pay, on one sale, then once no request *)
(* is in flight every item's stock is the initial stock minus the          *)
(* quantities held by the sales that exist, open or closed.                *)
C16_NoDeltaLostOrDoubled ==
  Quiet =>
    \A n \in DOMAIN inventory :
      inventory[n].stock = InitStock - Held(open_sales, n) - Held(closed_sales, n)

====
